---------------------------- MODULE Spec2Model ----------------------------
(***************************************************************************)
(* Model of the Factorio tech-tree viewer.                                 *)
(*                                                                         *)
(*   Spec        loadTechTree (app/page.tsx, the graph-building version):  *)
(*               sanitising the prerequisite lists, the fixed-point level  *)
(*               loop (one action per pass of the while loop), the         *)
(*               fallback loop and the construction of nodes and edges.    *)
(*   SpecRead    loadTechTree from the content of the file: the split into *)
(*               lines, the filter of the empty lines and JSON.parse,      *)
(*               then the steps of Spec.                                   *)
(*   SpecLayout  build_layout (app/tech-graph.tsx) applied to an array of  *)
(*               GraphNode values.                                         *)
(*   SpecEdges   the edges_with_paths memo of TechGraph applied to a       *)
(*               layout and an array of GraphEdge values.                  *)
(*   SpecSelect  the selection, highlighted_edge_ids and related_node_ids  *)
(*               memos of TechGraph and the dimming of edges and nodes.    *)
(*   SpecView    the event handlers of TechGraph: fit_to_view,             *)
(*               update_zoom, on_wheel, the pointer handlers, the clicks.  *)
(***************************************************************************)
EXTENDS Integers, Sequences, FiniteSets, TLC

VARIABLES
    pc,             \* position in the modelled code
    raw,            \* loadTechTree: the content of the file, a sequence of characters
    nodes,          \* loadTechTree: the parsed records, in file order
    levels,         \* loadTechTree: Map<string, number>, a function on the ids set so far
    rootIds,        \* loadTechTree: Set<string>, in insertion order
    remaining,      \* loadTechTree: Set<string>, in insertion order
    remainingLast,  \* loadTechTree: size of remaining before the pass
    passes,         \* history: number of passes of the while loop made so far
    stalled,        \* history: TRUE once a pass resolved no node
    loopLevels,     \* history: levels as the while loop left it
    graph_nodes,    \* loadTechTree: the GraphNode array returned
    edges,          \* loadTechTree: the GraphEdge array returned
    max_level,      \* loadTechTree: the max_level returned
    layout_nodes,   \* build_layout: its argument
    layout,         \* build_layout: its result
    edges_with_paths,       \* TechGraph: the memo of the drawn edges
    selection,              \* TechGraph: the memo of the selection
    highlighted_edge_ids,   \* TechGraph: the memo, a Set of edge ids
    related_node_ids,       \* TechGraph: the memo, a Set of node ids
    viewport,               \* the width and height of the container's bounding rect
    transform,              \* TechGraph: useState, the ViewTransform
    is_panning,             \* TechGraph: useState
    pointer_ref,            \* TechGraph: useRef, Undefined for null
    dragged_ref,            \* TechGraph: useRef
    selected_node_id,       \* TechGraph: useState, Undefined for null
    click_due,      \* browser: a click on the background follows the pointer up
    drag_start,     \* history: where the primary button went down on the background
    drag_far,       \* history: the pointer was more than 2 px from drag_start in this drag
    pan_sum,        \* history: the sum of the changes of the offset made by the moves of this drag
    last_pick,      \* history: what the last click on a node or on the background chose
    zooms,          \* history: the number of calls of update_zoom
    moves           \* history: the number of pointer move events

vars == <<pc, raw, nodes, levels, rootIds, remaining, remainingLast, passes, stalled,
          loopLevels, graph_nodes, edges, max_level, layout_nodes, layout,
          edges_with_paths, selection, highlighted_edge_ids, related_node_ids,
          viewport, transform, is_panning, pointer_ref, dragged_ref, selected_node_id,
          click_due, drag_start, drag_far, pan_sum, last_pick, zooms, moves>>

loaderVars == <<raw, nodes, levels, rootIds, remaining, remainingLast, passes, stalled,
                loopLevels, graph_nodes, edges, max_level>>

layoutVars == <<layout_nodes, layout>>

memoVars == <<edges_with_paths, selection, highlighted_edge_ids, related_node_ids>>

viewVars == <<viewport, transform, is_panning, pointer_ref, dragged_ref, selected_node_id,
              click_due, drag_start, drag_far, pan_sum, last_pick, zooms, moves>>

-----------------------------------------------------------------------------
(* Bounds of the model.                                                    *)

\* Total number of prerequisite references in a dataset, over both fields.
MaxRefs == 3

-----------------------------------------------------------------------------
(* Values.                                                                 *)

\* An optional field is <<>> when absent and <<v>> when it holds v.
Undefined == <<>>

Defined(v) == <<v>>

\* The variables of TechGraph while no TechGraph is mounted.
Unmounted ==
    /\ edges_with_paths = <<>>
    /\ selection = [mode |-> "none"]
    /\ highlighted_edge_ids = {}
    /\ related_node_ids = {}
    /\ viewport = [width |-> 0, height |-> 0]
    /\ transform = [x |-> <<0, 1>>, y |-> <<0, 1>>, scale |-> <<1, 1>>]
    /\ is_panning = FALSE
    /\ pointer_ref = Undefined
    /\ dragged_ref = FALSE
    /\ selected_node_id = Undefined
    /\ click_due = FALSE
    /\ drag_start = Undefined
    /\ drag_far = FALSE
    /\ pan_sum = << <<0, 1>>, <<0, 1>> >>
    /\ last_pick = Undefined
    /\ zooms = 0
    /\ moves = 0

\* Math.max() of no arguments.
NegInfinity == "-Infinity"

\* The ids of the records of a dataset, in file order.  loadTechTree treats
\* ids only by equality, so a dataset with other ids or another file order is
\* a renaming of one of these.
NodeIds == <<"a", "b", "c">>

\* An id that no record carries.
MissingId == "m"

RefIds == {NodeIds[i] : i \in 1..Len(NodeIds)} \cup {MissingId}

Max(S) == CHOOSE x \in S : \A y \in S : y <= x

Range(s) == {s[i] : i \in 1..Len(s)}

\* Array.prototype.filter with the predicate "is a member of keep".
RECURSIVE FilterIn(_, _)
FilterIn(s, keep) ==
    IF s = <<>> THEN <<>>
    ELSE IF Head(s) \in keep THEN <<Head(s)>> \o FilterIn(Tail(s), keep)
    ELSE FilterIn(Tail(s), keep)

-----------------------------------------------------------------------------
(* loadTechTree: the dataset.                                              *)

\* The ids held by the first k fields of a dataset whose i-th field holds
\* lens[i] ids.
RECURSIVE RefsBefore(_, _)
RefsBefore(lens, k) == IF k = 0 THEN 0 ELSE lens[k] + RefsBefore(lens, k - 1)

\* The shapes of a dataset of n records: which records carry the field
\* required_technologies_merged (field 2i-1 of record i), and how many ids
\* each of the 2n prerequisite fields holds, at most MaxRefs ids together.
Shapes(n) ==
    {sh \in [merged : SUBSET (1..n), lens : [1..(2 * n) -> 0..MaxRefs]] :
        /\ \A i \in 1..n : i \notin sh.merged => sh.lens[2 * i - 1] = 0
        /\ RefsBefore(sh.lens, 2 * n) <= MaxRefs}

\* The ids of the k-th field of a dataset of shape sh whose ids, in file
\* order, are refs.
Field(sh, refs, k) == [i \in 1..sh.lens[k] |-> refs[RefsBefore(sh.lens, k - 1) + i]]

\* The title of a record, as its rank in the collation order of the titles.
\* loadTechTree copies it and never reads it.
DatasetTitle(i) == i

\* type TechNode, one per non-empty line of the file.  The field
\* required_technologies holds the value of (node.required_technologies ?? []),
\* the only form in which the code reads it.
TechNode(i, merged, direct) ==
    [id |-> NodeIds[i],
     title |-> DatasetTitle(i),
     required_technologies_merged |-> merged,
     required_technologies |-> direct]

\* The dataset of n records of shape sh whose ids referred to are refs.
Dataset(n, sh, refs) ==
    [i \in 1..n |->
        TechNode(i,
                 IF i \in sh.merged THEN Defined(Field(sh, refs, 2 * i - 1)) ELSE Undefined,
                 Field(sh, refs, 2 * i))]

-----------------------------------------------------------------------------
(* loadTechTree: the maps built before the loop.                           *)

\* nodesById.has(id)
nodesById(ns) == {ns[i].id : i \in 1..Len(ns)}

\* The record of an id (ids are distinct).
NodeOf(ns, id) == ns[CHOOSE i \in 1..Len(ns) : ns[i].id = id]

\* node.required_technologies_merged ?? node.required_technologies ?? []
raw_dependencies(node) ==
    IF node.required_technologies_merged # Undefined
    THEN node.required_technologies_merged[1]
    ELSE node.required_technologies

\* field ?? []
OrEmpty(opt) == IF opt = Undefined THEN <<>> ELSE opt[1]

\* The filter predicate of self_loop_ids.
ListsItself(node) ==
    \/ node.id \in Range(OrEmpty(node.required_technologies_merged))
    \/ node.id \in Range(node.required_technologies)

self_loop_ids(ns) == {ns[i].id : i \in {j \in 1..Len(ns) : ListsItself(ns[j])}}

\* dependencies without the filter that drops the id itself.
dependencies_KeepSelf(ns, id) == FilterIn(raw_dependencies(NodeOf(ns, id)), nodesById(ns))

\* dependencies without the filter that drops the ids no record carries.
dependencies_KeepUnknown(ns, id) == FilterIn(raw_dependencies(NodeOf(ns, id)), RefIds \ {id})

\* dependencies.get(id): the raw list without the id itself, then without
\* the ids that no record carries.
dependencies(ns, id) ==
    FilterIn(FilterIn(raw_dependencies(NodeOf(ns, id)), RefIds \ {id}), nodesById(ns))

-----------------------------------------------------------------------------
(* loadTechTree: the level loop.                                           *)

\* levels.has(id)
Has(lv, id) == id \in DOMAIN lv

\* levels.set(id, value)
MapSet(lv, id, value) == [k \in DOMAIN lv \cup {id} |-> IF k = id THEN value ELSE lv[k]]

\* set.add(id) on a Set kept in insertion order
SetAdd(s, id) == IF id \in Range(s) THEN s ELSE Append(s, id)

\* set.delete(id)
SetDelete(s, id) == FilterIn(s, Range(s) \ {id})

\* ResolveOne with the level of a dependent set to the maximum level of its
\* prerequisites, without the + 1.
ResolveOne_NoIncrement(ns, st, id) ==
    LET deps == dependencies(ns, id)
        resolved == FilterIn(deps, DOMAIN st.levels)
    IN  IF Len(deps) = 0
        THEN [levels |-> MapSet(st.levels, id, 0),
              rootIds |-> SetAdd(st.rootIds, id),
              remaining |-> SetDelete(st.remaining, id)]
        ELSE IF Len(resolved) = Len(deps)
        THEN [levels |-> MapSet(st.levels, id,
                                Max({st.levels[resolved[i]] : i \in 1..Len(resolved)})),
              rootIds |-> st.rootIds,
              remaining |-> SetDelete(st.remaining, id)]
        ELSE st

\* The body of the for loop of one pass, for one id of the snapshot.
ResolveOne(ns, st, id) ==
    LET deps == dependencies(ns, id)
        resolved == FilterIn(deps, DOMAIN st.levels)
    IN  IF Len(deps) = 0
        THEN [levels |-> MapSet(st.levels, id, 0),
              rootIds |-> SetAdd(st.rootIds, id),
              remaining |-> SetDelete(st.remaining, id)]
        ELSE IF Len(resolved) = Len(deps)
        THEN [levels |-> MapSet(st.levels, id,
                                Max({st.levels[resolved[i]] : i \in 1..Len(resolved)}) + 1),
              rootIds |-> st.rootIds,
              remaining |-> SetDelete(st.remaining, id)]
        ELSE st

\* for (const id of Array.from(remaining)) { ... }
RECURSIVE PassOver(_, _, _)
PassOver(ns, snapshot, st) ==
    IF snapshot = <<>> THEN st
    ELSE PassOver(ns, Tail(snapshot), ResolveOne(ns, st, Head(snapshot)))

\* LoopCondition without the test that the last pass made progress.
LoopCondition_NoStallTest == Len(remaining) > 0

\* The condition of the while loop.
LoopCondition == Len(remaining) > 0 /\ Len(remaining) < remainingLast

\* The body of the fallback loop, for one id.
FallbackOne(ns, lv, id) ==
    LET deps == dependencies(ns, id)
        resolved == {lv[deps[i]] : i \in {j \in 1..Len(deps) : Has(lv, deps[j])}}
        fallbackLevel == IF resolved # {} THEN Max(resolved) + 1 ELSE 0
    IN  MapSet(lv, id, fallbackLevel)

\* for (const id of remaining) { ... }
RECURSIVE FallbackOver(_, _, _)
FallbackOver(ns, rest, lv) ==
    IF rest = <<>> THEN lv
    ELSE FallbackOver(ns, Tail(rest), FallbackOne(ns, lv, Head(rest)))

-----------------------------------------------------------------------------
(* loadTechTree: the graph returned.                                       *)

GraphNode(ns, lv, node) ==
    [id |-> node.id,
     title |-> node.title,
     prerequisites |-> dependencies(ns, node.id),
     level |-> IF Has(lv, node.id) THEN lv[node.id] ELSE 0,
     is_infinite |-> node.id \in self_loop_ids(ns)]

\* `${dependency}::${node.id}`
EdgeId(from, to) == from \o "::" \o to

GraphEdge(from, to) == [id |-> EdgeId(from, to), from |-> from, to |-> to]

\* The inner loop: one edge per entry of node.prerequisites.
EdgesOf(node) ==
    [i \in 1..Len(node.prerequisites) |-> GraphEdge(node.prerequisites[i], node.id)]

\* The outer loop over graph_nodes.
RECURSIVE BuildEdges(_)
BuildEdges(gns) ==
    IF gns = <<>> THEN <<>> ELSE EdgesOf(Head(gns)) \o BuildEdges(Tail(gns))

\* Math.max(...Array.from(levels.values()))
MaxLevelOf(lv) == IF DOMAIN lv = {} THEN NegInfinity ELSE Max({lv[k] : k \in DOMAIN lv})

-----------------------------------------------------------------------------
(* loadTechTree as a state machine.                                        *)

EmptyMap == [k \in {} |-> 0]

NoLayout == [width |-> 0, height |-> 0, positions |-> EmptyMap, sizes |-> EmptyMap]

\* The state when the while loop is first reached: any dataset of up to
\* Len(NodeIds) records with distinct ids, of any shape and any ids referred to.
\* The text the records were parsed from is not kept here (see InitRead).
Init ==
    /\ \E n \in 0..Len(NodeIds) :
         \E sh \in Shapes(n) :
           \E refs \in [1..RefsBefore(sh.lens, 2 * n) -> RefIds] :
             nodes = Dataset(n, sh, refs)
    /\ pc = "loop"
    /\ levels = EmptyMap
    /\ rootIds = <<>>
    /\ remaining = [i \in 1..Len(nodes) |-> nodes[i].id]
    /\ remainingLast = Len(nodes) + 1
    /\ passes = 0
    /\ stalled = FALSE
    /\ loopLevels = EmptyMap
    /\ graph_nodes = <<>>
    /\ edges = <<>>
    /\ max_level = NegInfinity
    /\ raw = <<>>
    /\ layout_nodes = <<>>
    /\ layout = NoLayout
    /\ Unmounted

\* One pass of the while loop.
Pass ==
    /\ pc = "loop"
    /\ LoopCondition
    /\ \E st \in {PassOver(nodes, remaining,
                           [levels |-> levels, rootIds |-> rootIds, remaining |-> remaining])} :
           /\ levels' = st.levels
           /\ rootIds' = st.rootIds
           /\ remaining' = st.remaining
           /\ stalled' = (Len(st.remaining) = Len(remaining))
    /\ remainingLast' = Len(remaining)
    /\ passes' = passes + 1
    /\ UNCHANGED <<pc, raw, nodes, loopLevels, graph_nodes, edges, max_level, layoutVars,
                   memoVars, viewVars>>

\* The while loop ends; the fallback loop runs over what is left.
Fallback ==
    /\ pc = "loop"
    /\ ~LoopCondition
    /\ loopLevels' = levels
    /\ levels' = FallbackOver(nodes, remaining, levels)
    /\ pc' = "build"
    /\ UNCHANGED <<raw, nodes, rootIds, remaining, remainingLast, passes, stalled,
                   graph_nodes, edges, max_level, layoutVars, memoVars, viewVars>>

\* max_level, graph_nodes and edges are built and returned.
BuildGraph ==
    /\ pc = "build"
    /\ max_level' = MaxLevelOf(levels)
    /\ \E gns \in {[i \in 1..Len(nodes) |-> GraphNode(nodes, levels, nodes[i])]} :
           /\ graph_nodes' = gns
           /\ edges' = BuildEdges(gns)
    /\ pc' = "done"
    /\ UNCHANGED <<raw, nodes, levels, rootIds, remaining, remainingLast, passes, stalled,
                   loopLevels, layoutVars, memoVars, viewVars>>

Next == Pass \/ Fallback \/ BuildGraph

Spec == Init /\ [][Next]_vars

-----------------------------------------------------------------------------
(* loadTechTree: reading the file.                                         *)

\* The length of the content of the file, in characters.
MaxChars == 4

\* String.prototype.split("\n"): the lines of a content, in order; a content
\* of n line feeds has n + 1 lines.
RECURSIVE split(_)
split(content) ==
    IF content = <<>> THEN << <<>> >>
    ELSE IF Head(content) = "\n" THEN << <<>> >> \o split(Tail(content))
    ELSE LET rest == split(Tail(content))
         IN  << <<Head(content)>> \o Head(rest) >> \o Tail(rest)

\* String.prototype.trim(): the line without its leading and trailing white space.
RECURSIVE trim(_)
trim(line) ==
    IF line = <<>> THEN <<>>
    ELSE IF Head(line) = " " THEN trim(Tail(line))
    ELSE IF line[Len(line)] = " " THEN trim(SubSeq(line, 1, Len(line) - 1))
    ELSE line

\* (line) => line.trim().length > 0
NotEmpty(line) == Len(trim(line)) > 0

\* JSON.parse(line): Defined(the record) when the line is the JSON text of one
\* record with white space around it, Undefined when it throws a SyntaxError.
\* The record a has no prerequisite, the record b requires a.
JSON_parse(line) ==
    LET text == trim(line)
    IN  IF Len(text) = 1 /\ text[1] = "a" THEN Defined(TechNode(1, Undefined, <<>>))
        ELSE IF Len(text) = 1 /\ text[1] = "b" THEN Defined(TechNode(2, Undefined, <<"a">>))
        ELSE Undefined

\* raw.split("\n").filter(...).map(...): Defined(the array of the records),
\* or Undefined when JSON.parse throws on one of the lines kept.
ReadNodes(content) ==
    LET lines == SelectSeq(split(content), NotEmpty)
    IN  IF \E i \in 1..Len(lines) : JSON_parse(lines[i]) = Undefined THEN Undefined
        ELSE Defined([i \in 1..Len(lines) |-> JSON_parse(lines[i])[1]])

\* loadTechTree is called: the file holds any content of up to MaxChars
\* characters in which no record is given twice.  A character is the line
\* feed, a white-space character, a text that is no JSON ("{"), or the JSON
\* text of one of two records, named by the id of the record.
InitRead ==
    /\ \E n \in 0..MaxChars : \E content \in [1..n -> {"\n", " ", "{", "a", "b"}] :
         /\ \A i, j \in 1..n : (content[i] = content[j] /\ content[i] \in {"a", "b"}) => i = j
         /\ raw = content
    /\ pc = "read"
    /\ nodes = <<>>
    /\ levels = EmptyMap
    /\ rootIds = <<>>
    /\ remaining = <<>>
    /\ remainingLast = 0
    /\ passes = 0
    /\ stalled = FALSE
    /\ loopLevels = EmptyMap
    /\ graph_nodes = <<>>
    /\ edges = <<>>
    /\ max_level = NegInfinity
    /\ layout_nodes = <<>>
    /\ layout = NoLayout
    /\ Unmounted

\* The file is read and parsed, the maps and sets of the loop are built; or
\* JSON.parse throws and the promise loadTechTree returned is rejected.
ReadFile ==
    /\ pc = "read"
    /\ \E r \in {ReadNodes(raw)} :
         IF r = Undefined
         THEN /\ pc' = "rejected"
              /\ UNCHANGED <<nodes, remaining, remainingLast>>
         ELSE /\ pc' = "loop"
              /\ nodes' = r[1]
              /\ remaining' = [i \in 1..Len(r[1]) |-> r[1][i].id]
              /\ remainingLast' = Len(r[1]) + 1
    /\ UNCHANGED <<raw, levels, rootIds, passes, stalled, loopLevels, graph_nodes, edges,
                   max_level, layoutVars, memoVars, viewVars>>

NextRead == ReadFile \/ Pass \/ Fallback \/ BuildGraph

SpecRead == InitRead /\ [][NextRead]_vars

-----------------------------------------------------------------------------
(* tech-graph.tsx: constants.                                              *)

node_width == 300

node_gap_x == 80

node_gap_y == 110

canvas_padding == 80

node_padding_y == 28

node_item_gap == 10

node_icon_size == 72

node_title_height == 36

node_meta_height == 12

science_pack_size == 56

science_pack_gap == 6

-----------------------------------------------------------------------------
(* build_layout: its inputs.                                               *)

\* The highest level of a node handed to build_layout.
MaxLevel == 2

\* The number of distinct titles, as ranks in the collation order.
MaxTitle == 2

\* The ids of the nodes handed to build_layout, in ascending order.
LayoutIds == <<"a", "b", "c">>

\* The research fields of a node: research_type, and research_science as
\* Undefined or Defined(k), k the number of its science_packs whose name is a
\* key of science_pack_name_map.
ResearchCases ==
    {[research_type |-> "trigger", research_science |-> Defined(5)],
     [research_type |-> "science", research_science |-> Defined(1)],
     [research_type |-> "science", research_science |-> Defined(5)]}

\* The fields of a node other than its id: title, level and research fields.
LayoutAttrs ==
    [title : 1..MaxTitle, level : 0..MaxLevel, research : ResearchCases]

\* type GraphNode, with the fields build_layout reads.
LayoutNode(id, attrs) ==
    [id |-> id,
     title |-> attrs.title,
     level |-> attrs.level,
     research_type |-> attrs.research.research_type,
     research_science |-> attrs.research.research_science]

\* The arrays of n distinct ids, in any order.
IdArrays(n) ==
    {ids \in [1..n -> Range(LayoutIds)] : \A i, j \in 1..n : ids[i] = ids[j] => i = j}

-----------------------------------------------------------------------------
(* build_layout.                                                           *)

Min(a, b) == IF a <= b THEN a ELSE b

\* get_science_pack_icons(node).length: the packs with a known name, at most 12.
science_icons_length(node) ==
    IF node.research_type # "science" \/ node.research_science = Undefined
    THEN 0
    ELSE Min(node.research_science[1], 12)

get_node_height(node) ==
    LET rows == (science_icons_length(node) + 3) \div 4
        science_height ==
            IF rows > 0
            THEN rows * science_pack_size + Max({0, rows - 1}) * science_pack_gap
            ELSE 0
        gap_count == IF rows > 0 THEN 3 ELSE 2
    IN  node_padding_y + node_icon_size + node_title_height + node_meta_height
        + science_height + gap_count * node_item_gap

\* a.localeCompare(b) on titles, which the model holds as collation ranks.
localeCompare(a, b) == IF a < b THEN 0 - 1 ELSE IF a > b THEN 1 ELSE 0

\* One step of a stable sort: x goes behind every element that does not
\* compare greater than it.
RECURSIVE InsertByTitle(_, _)
InsertByTitle(sorted, x) ==
    IF sorted = <<>> THEN <<x>>
    ELSE IF localeCompare(Head(sorted).title, x.title) > 0 THEN <<x>> \o sorted
    ELSE <<Head(sorted)>> \o InsertByTitle(Tail(sorted), x)

\* level_nodes.sort((a, b) => a.title.localeCompare(b.title)); Array.sort is stable.
RECURSIVE SortByTitle(_)
SortByTitle(ns) ==
    IF ns = <<>> THEN <<>>
    ELSE InsertByTitle(SortByTitle(SubSeq(ns, 1, Len(ns) - 1)), ns[Len(ns)])

\* The nodes of one level, in the order of the input array.
RECURSIVE AtLevel(_, _)
AtLevel(ns, level) ==
    IF ns = <<>> THEN <<>>
    ELSE IF Head(ns).level = level THEN <<Head(ns)>> \o AtLevel(Tail(ns), level)
    ELSE AtLevel(Tail(ns), level)

\* max_level after the first loop.
layout_max_level(ns) == Max({0} \cup {ns[i].level : i \in 1..Len(ns)})

\* nodes_by_level.get(level) ?? [] after the sort.
nodes_by_level(ns, level) == SortByTitle(AtLevel(ns, level))

max_nodes_per_level(ns) ==
    Max({1} \cup {Len(AtLevel(ns, ns[i].level)) : i \in 1..Len(ns)})

layout_width(ns) ==
    max_nodes_per_level(ns) * node_width
    + (max_nodes_per_level(ns) - 1) * node_gap_x
    + canvas_padding * 2

\* level_heights with the height of the first node of the level for the
\* maximum height.
level_heights_FirstNode(ns, level) ==
    IF AtLevel(ns, level) = <<>> THEN 0 ELSE get_node_height(Head(AtLevel(ns, level)))

\* level_heights.get(level) ?? 0
level_heights(ns, level) ==
    Max({0} \cup {get_node_height(ns[i]) : i \in {j \in 1..Len(ns) : ns[j].level = level}})

\* The sum of the heights of the levels below level.
RECURSIVE HeightsBelow(_, _)
HeightsBelow(ns, level) ==
    IF level = 0 THEN 0
    ELSE HeightsBelow(ns, level - 1) + level_heights(ns, level - 1)

layout_height(ns) ==
    LET total_levels == layout_max_level(ns) + 1
    IN  canvas_padding * 2 + HeightsBelow(ns, total_levels)
        + Max({0, total_levels - 1}) * node_gap_y

\* current_y when the loop reaches level.
RECURSIVE current_y(_, _)
current_y(ns, level) ==
    IF level = 0 THEN canvas_padding
    ELSE current_y(ns, level - 1) + level_heights(ns, level - 1) + node_gap_y

\* offset_x without the centring of the row.
offset_x_LeftAligned(ns, count) == canvas_padding

\* offset_x of a row of count nodes.  The dividend is even: it is 0 or a
\* multiple of node_width + node_gap_x = 380 when the row holds a node.
offset_x(ns, count) ==
    LET row_width == count * node_width + Max({0, count - 1}) * node_gap_x
    IN  canvas_padding
        + Max({0, (layout_width(ns) - canvas_padding * 2 - row_width) \div 2})

\* positions[node.id] of the node at index (from 0) of the sorted row of its level.
PositionAt(ns, level, index) ==
    [x |-> offset_x(ns, Len(AtLevel(ns, level))) + index * (node_width + node_gap_x),
     y |-> current_y(ns, level)]

\* The index (from 0) of an id in a row.
IndexIn(row, id) == (CHOOSE k \in 1..Len(row) : row[k].id = id) - 1

build_layout(ns) ==
    LET ids == {ns[i].id : i \in 1..Len(ns)}
        nodeOf(id) == ns[CHOOSE i \in 1..Len(ns) : ns[i].id = id]
    IN  [width |-> layout_width(ns),
         height |-> layout_height(ns),
         positions |->
            [id \in ids |->
                PositionAt(ns, nodeOf(id).level,
                           IndexIn(nodes_by_level(ns, nodeOf(id).level), id))],
         sizes |-> [id \in ids |-> [width |-> node_width,
                                     height |-> get_node_height(nodeOf(id))]]]

-----------------------------------------------------------------------------
(* build_layout as a state machine.                                        *)

\* TechGraph is handed an array of nodes: nodes with distinct ids, in any
\* order, with any titles, levels and research fields.
InitLayout ==
    /\ pc = "layout"
    /\ \E n \in 0..Len(LayoutIds) :
         \E ids \in IdArrays(n) :
           \E attrs \in [1..n -> LayoutAttrs] :
             layout_nodes = [i \in 1..n |-> LayoutNode(ids[i], attrs[i])]
    /\ layout = NoLayout
    /\ nodes = <<>>
    /\ levels = EmptyMap
    /\ rootIds = <<>>
    /\ remaining = <<>>
    /\ remainingLast = 1
    /\ passes = 0
    /\ stalled = FALSE
    /\ loopLevels = EmptyMap
    /\ graph_nodes = <<>>
    /\ edges = <<>>
    /\ max_level = NegInfinity
    /\ raw = <<>>
    /\ Unmounted

\* const layout = useMemo(() => build_layout(nodes), [nodes])
BuildLayout ==
    /\ pc = "layout"
    /\ layout' = build_layout(layout_nodes)
    /\ pc' = "laid"
    /\ UNCHANGED <<layout_nodes, loaderVars, memoVars, viewVars>>

NextLayout == BuildLayout

SpecLayout == InitLayout /\ [][NextLayout]_vars

-----------------------------------------------------------------------------
(* tech-graph.tsx: numbers.                                                *)
(* A number that is not an integer is the pair <<n, d>> of the fraction    *)
(* n/d in lowest terms with d > 0; the arithmetic is exact.                *)

Abs(i) == IF i < 0 THEN 0 - i ELSE i

RECURSIVE GCD(_, _)
GCD(a, b) == IF b = 0 THEN a ELSE GCD(b, a % b)

\* The fraction n/d, d # 0, in lowest terms.
Rat(n, d) ==
    LET g == GCD(Abs(n), Abs(d))
    IN  IF d < 0 THEN <<(0 - n) \div g, (0 - d) \div g>> ELSE <<n \div g, d \div g>>

\* An integer as a number.
Num(i) == <<i, 1>>

\* Sums, products and comparisons divide by the common factors before they
\* multiply, which keeps the intermediate integers small.
Plus(a, b) ==
    LET g == GCD(a[2], b[2])
    IN  Rat(a[1] * (b[2] \div g) + b[1] * (a[2] \div g), (a[2] \div g) * b[2])

Minus(a, b) == Plus(a, <<0 - b[1], b[2]>>)

Times(a, b) ==
    LET g1 == GCD(Abs(a[1]), b[2])
        g2 == GCD(Abs(b[1]), a[2])
    IN  Rat((a[1] \div g1) * (b[1] \div g2), (a[2] \div g2) * (b[2] \div g1))

\* a / b for b # 0.
Over(a, b) == IF b[1] < 0 THEN Times(a, <<0 - b[2], 0 - b[1]>>) ELSE Times(a, <<b[2], b[1]>>)

Less(a, b) ==
    LET g == GCD(a[2], b[2])
    IN  a[1] * (b[2] \div g) < b[1] * (a[2] \div g)

Leq(a, b) == ~Less(b, a)

\* Math.min and Math.max of two numbers.
MathMin(a, b) == IF Leq(a, b) THEN a ELSE b

MathMax(a, b) == IF Leq(a, b) THEN b ELSE a

-----------------------------------------------------------------------------
(* TechGraph: the edges_with_paths memo.                                   *)

\* The greatest length of the edges array handed to TechGraph.
MaxEdges == 2

\* The ids an edge may name: the ids of the nodes and an id without a node.
EdgeEndIds == {"a", "b", MissingId}

\* The path string `M sx sy C sx my, ex my, ex ey`: the point after M and
\* the three points after C.
PathString(start_x, start_y, mid_y, end_x, end_y) ==
    [M |-> <<start_x, start_y>>,
     C |-> << <<start_x, mid_y>>, <<end_x, mid_y>>, <<end_x, end_y>> >>]

\* const mid_y = start_y + (end_y - start_y) * 0.55
MidY(start_y, end_y) == Plus(start_y, Times(Minus(end_y, start_y), Rat(55, 100)))

\* The two early returns without the test of edge.from === edge.to.
ReturnsNull_MissingOnly(lay, edge) ==
    ~Has(lay.positions, edge.from) \/ ~Has(lay.positions, edge.to)

\* The two early returns of the callback of edges.map.
ReturnsNull(lay, edge) ==
    \/ ~Has(lay.positions, edge.from) \/ ~Has(lay.positions, edge.to)
    \/ edge.from = edge.to

\* The callback of edges.map: Undefined for null.
EdgePath(lay, edge) ==
    IF ReturnsNull(lay, edge) THEN Undefined
    ELSE
        LET from_pos == lay.positions[edge.from]
            to_pos == lay.positions[edge.to]
            from_width == IF Has(lay.sizes, edge.from)
                          THEN lay.sizes[edge.from].width ELSE node_width
            from_height == IF Has(lay.sizes, edge.from)
                           THEN lay.sizes[edge.from].height ELSE 0
            to_width == IF Has(lay.sizes, edge.to)
                        THEN lay.sizes[edge.to].width ELSE node_width
            start_x == Plus(Num(from_pos.x), Over(Num(from_width), Num(2)))
            start_y == Num(from_pos.y + from_height)
            end_x == Plus(Num(to_pos.x), Over(Num(to_width), Num(2)))
            end_y == Num(to_pos.y)
        IN  Defined([id |-> edge.id, from |-> edge.from, to |-> edge.to,
                     path |-> PathString(start_x, start_y, MidY(start_y, end_y),
                                         end_x, end_y)])

\* edges.map(...).filter(not null)
RECURSIVE EdgesWithPaths(_, _)
EdgesWithPaths(lay, es) ==
    IF es = <<>> THEN <<>>
    ELSE IF EdgePath(lay, Head(es)) # Undefined
         THEN <<EdgePath(lay, Head(es))[1]>> \o EdgesWithPaths(lay, Tail(es))
         ELSE EdgesWithPaths(lay, Tail(es))

\* TechGraph is rendered with an array of nodes (the first n of the ids, any
\* levels and research fields) and an array of edges; the layout memo has run.
InitEdges ==
    /\ pc = "edges"
    /\ \E n \in 0..2 :
         \E attrs \in [1..n -> [title : {1}, level : 0..MaxLevel, research : ResearchCases]] :
           \E ns \in {[i \in 1..n |-> LayoutNode(LayoutIds[i], attrs[i])]} :
             /\ layout_nodes = ns
             /\ layout = build_layout(ns)
    /\ \E k \in 0..MaxEdges :
         \E ends \in [1..k -> EdgeEndIds \X EdgeEndIds] :
           edges = [i \in 1..k |-> GraphEdge(ends[i][1], ends[i][2])]
    /\ nodes = <<>>
    /\ levels = EmptyMap
    /\ rootIds = <<>>
    /\ remaining = <<>>
    /\ remainingLast = 1
    /\ passes = 0
    /\ stalled = FALSE
    /\ loopLevels = EmptyMap
    /\ graph_nodes = <<>>
    /\ max_level = NegInfinity
    /\ raw = <<>>
    /\ Unmounted

\* const edges_with_paths = useMemo(...)
BuildPaths ==
    /\ pc = "edges"
    /\ edges_with_paths' = EdgesWithPaths(layout, edges)
    /\ pc' = "drawn"
    /\ UNCHANGED <<raw, nodes, levels, rootIds, remaining, remainingLast, passes, stalled,
                   loopLevels, graph_nodes, edges, max_level, layoutVars,
                   selection, highlighted_edge_ids, related_node_ids, viewVars>>

NextEdges == BuildPaths

SpecEdges == InitEdges /\ [][NextEdges]_vars

-----------------------------------------------------------------------------
(* TechGraph: the selection memos and the dimming.                         *)

\* nodes_by_id.get(id): Undefined when no node has the id.
nodes_by_id_get(ns, id) ==
    IF \E i \in 1..Len(ns) : ns[i].id = id
    THEN Defined(ns[Max({i \in 1..Len(ns) : ns[i].id = id})])
    ELSE Undefined

\* edges.filter((edge) => edge.to === selected_node_id)
RECURSIVE EdgesTo(_, _)
EdgesTo(es, id) ==
    IF es = <<>> THEN <<>>
    ELSE IF Head(es).to = id THEN <<Head(es)>> \o EdgesTo(Tail(es), id)
    ELSE EdgesTo(Tail(es), id)

\* edges.filter((edge) => edge.from === selected_node_id)
RECURSIVE EdgesFrom(_, _)
EdgesFrom(es, id) ==
    IF es = <<>> THEN <<>>
    ELSE IF Head(es).from = id THEN <<Head(es)>> \o EdgesFrom(Tail(es), id)
    ELSE EdgesFrom(Tail(es), id)

\* ids.map((id) => nodes_by_id.get(id)).filter(Boolean)
RECURSIVE NodesOf(_, _)
NodesOf(ns, ids) ==
    IF ids = <<>> THEN <<>>
    ELSE IF nodes_by_id_get(ns, Head(ids)) = Undefined THEN NodesOf(ns, Tail(ids))
    ELSE <<nodes_by_id_get(ns, Head(ids))[1]>> \o NodesOf(ns, Tail(ids))

\* The selection memo.
selection_memo(ns, es, selected) ==
    IF selected # Undefined
    THEN LET incoming_edges == EdgesTo(es, selected[1])
             outgoing_edges == EdgesFrom(es, selected[1])
         IN  [mode |-> "node",
              incoming_edges |-> incoming_edges,
              outgoing_edges |-> outgoing_edges,
              incoming_nodes |->
                  NodesOf(ns, [i \in 1..Len(incoming_edges) |-> incoming_edges[i].from]),
              outgoing_nodes |->
                  NodesOf(ns, [i \in 1..Len(outgoing_edges) |-> outgoing_edges[i].to])]
    ELSE [mode |-> "none"]

\* The highlighted_edge_ids memo with the incoming edges alone.
highlighted_edge_ids_memo_Incoming(sel) ==
    IF sel.mode = "node"
    THEN {sel.incoming_edges[i].id : i \in 1..Len(sel.incoming_edges)}
    ELSE {}

\* The highlighted_edge_ids memo.
highlighted_edge_ids_memo(sel) ==
    IF sel.mode = "node"
    THEN {sel.incoming_edges[i].id : i \in 1..Len(sel.incoming_edges)}
         \cup {sel.outgoing_edges[i].id : i \in 1..Len(sel.outgoing_edges)}
    ELSE {}

\* The related_node_ids memo without the selected node.
related_node_ids_memo_Neighbours(sel, selected) ==
    IF sel.mode = "node"
    THEN {sel.incoming_nodes[i].id : i \in 1..Len(sel.incoming_nodes)}
         \cup {sel.outgoing_nodes[i].id : i \in 1..Len(sel.outgoing_nodes)}
    ELSE {}

\* The related_node_ids memo; selected_node_id ?? "" is the id, for the mode
\* is "node" only when there is one.
related_node_ids_memo(sel, selected) ==
    IF sel.mode = "node"
    THEN {sel.incoming_nodes[i].id : i \in 1..Len(sel.incoming_nodes)}
         \cup {sel.outgoing_nodes[i].id : i \in 1..Len(sel.outgoing_nodes)}
         \cup {IF selected # Undefined THEN selected[1] ELSE ""}
    ELSE {}

\* is_highlighted and is_dimmed of a drawn edge.
edge_is_highlighted(highlighted, edge) == edge.id \in highlighted

edge_is_dimmed(highlighted, edge) == Cardinality(highlighted) > 0 /\ edge.id \notin highlighted

\* is_related and is_dimmed of a node card.
node_is_related(related, node) == node.id \in related

node_is_dimmed(related, node) == Cardinality(related) > 0 /\ node.id \notin related

\* The nodes handed to TechGraph: a at level 0, b at level 1, c at level 2.
SelectNodes ==
    [i \in 1..3 |->
        LayoutNode(LayoutIds[i],
                   [title |-> 1, level |-> i - 1,
                    research |-> [research_type |-> "trigger", research_science |-> Undefined]])]

\* TechGraph is rendered with the nodes, any array of edges as loadTechTree
\* returns them (each between two different nodes, an edge may be repeated)
\* and nothing or one of the nodes selected.
InitSelect ==
    /\ pc = "select"
    /\ layout_nodes = SelectNodes
    /\ layout = build_layout(SelectNodes)
    /\ \E k \in 0..MaxEdges :
         \E ends \in [1..k -> {e \in Range(LayoutIds) \X Range(LayoutIds) : e[1] # e[2]}] :
           edges = [i \in 1..k |-> GraphEdge(ends[i][1], ends[i][2])]
    /\ selected_node_id \in {Undefined} \cup {Defined(id) : id \in Range(LayoutIds)}
    /\ nodes = <<>>
    /\ levels = EmptyMap
    /\ rootIds = <<>>
    /\ remaining = <<>>
    /\ remainingLast = 1
    /\ passes = 0
    /\ stalled = FALSE
    /\ loopLevels = EmptyMap
    /\ graph_nodes = <<>>
    /\ max_level = NegInfinity
    /\ raw = <<>>
    /\ edges_with_paths = <<>>
    /\ selection = [mode |-> "none"]
    /\ highlighted_edge_ids = {}
    /\ related_node_ids = {}
    /\ viewport = [width |-> 0, height |-> 0]
    /\ transform = [x |-> <<0, 1>>, y |-> <<0, 1>>, scale |-> <<1, 1>>]
    /\ is_panning = FALSE
    /\ pointer_ref = Undefined
    /\ dragged_ref = FALSE
    /\ click_due = FALSE
    /\ drag_start = Undefined
    /\ drag_far = FALSE
    /\ pan_sum = << <<0, 1>>, <<0, 1>> >>
    /\ last_pick = selected_node_id
    /\ zooms = 0
    /\ moves = 0

\* One render: the memos are computed from the props and selected_node_id.
Render ==
    /\ pc = "select"
    /\ edges_with_paths' = EdgesWithPaths(layout, edges)
    /\ \E sel \in {selection_memo(layout_nodes, edges, selected_node_id)} :
         /\ selection' = sel
         /\ highlighted_edge_ids' = highlighted_edge_ids_memo(sel)
         /\ related_node_ids' = related_node_ids_memo(sel, selected_node_id)
    /\ pc' = "rendered"
    /\ UNCHANGED <<raw, nodes, levels, rootIds, remaining, remainingLast, passes, stalled,
                   loopLevels, graph_nodes, edges, max_level, layoutVars, viewVars>>

NextSelect == Render

SpecSelect == InitSelect /\ [][NextSelect]_vars

-----------------------------------------------------------------------------
(* TechGraph: the view transform and the event handlers.                   *)

\* The greatest number of calls of update_zoom in a run.
MaxZooms == 1

\* The greatest number of pointer moves that pan in a run.
MaxMoves == 2

min_zoom == Rat(35, 100)

max_zoom == Rat(25, 10)

\* The nodes and edges TechGraph is rendered with: a at level 0, b at level 1
\* and the edge from a to b.  The canvas is 460 wide and 606 high.
ViewNodes ==
    <<LayoutNode("a", [title |-> 1, level |-> 0,
                       research |-> [research_type |-> "trigger", research_science |-> Undefined]]),
      LayoutNode("b", [title |-> 1, level |-> 1,
                       research |-> [research_type |-> "trigger", research_science |-> Undefined]])>>

ViewEdges == <<GraphEdge("a", "b")>>

\* The sizes getBoundingClientRect reports for the container: a container
\* far smaller than the canvas and one of the size of the canvas.
Viewports == {[width |-> 115, height |-> 303], [width |-> 460, height |-> 606]}

\* The places of the pointer, clientX - rect.left and clientY - rect.top.
Points == {[x |-> 0, y |-> 0], [x |-> 2, y |-> 0], [x |-> 4, y |-> 1]}

\* function clamp
clamp(value, min, max) == MathMin(max, MathMax(min, value))

\* clamp without the lower limit.
fit_scale_NoMinimum(vp, lay) ==
    MathMin(max_zoom,
            MathMin(MathMin(Over(Num(vp.width), Num(lay.width)),
                            Over(Num(vp.height), Num(lay.height))), Num(1)))

\* const scale = clamp(Math.min(width / layout.width, height / layout.height, 1), ...)
fit_scale(vp, lay) ==
    clamp(MathMin(MathMin(Over(Num(vp.width), Num(lay.width)),
                          Over(Num(vp.height), Num(lay.height))), Num(1)),
          min_zoom, max_zoom)

\* fit_to_view: the transform it sets when the current one is t.
fit_to_view(t, vp, lay) ==
    IF vp.width = 0 \/ vp.height = 0 THEN t
    ELSE [x |-> Over(Minus(Num(vp.width), Times(Num(lay.width), fit_scale(vp, lay))), Num(2)),
          y |-> Over(Minus(Num(vp.height), Times(Num(lay.height), fit_scale(vp, lay))), Num(2)),
          scale |-> fit_scale(vp, lay)]

\* The scale update_zoom sets, without the clamp.
zoom_scale_Unclamped(next_scale) == next_scale

\* const scale = clamp(next_scale, min_zoom, max_zoom)
zoom_scale(next_scale) == clamp(next_scale, min_zoom, max_zoom)

\* The new offset with the ratio left out.
zoom_offset_NoRatio(anchor, current, ratio) == current

\* anchor.x - (anchor.x - current.x) * ratio
zoom_offset(anchor, current, ratio) == Minus(anchor, Times(Minus(anchor, current), ratio))

\* update_zoom: the transform it sets when the current one is t; anchor_x
\* and anchor_y are Undefined or Defined(number).
update_zoom(t, vp, next_scale, anchor_x, anchor_y) ==
    LET ratio == Over(zoom_scale(next_scale), t.scale)
        x == IF anchor_x = Undefined THEN Over(Num(vp.width), Num(2)) ELSE anchor_x[1]
        y == IF anchor_y = Undefined THEN Over(Num(vp.height), Num(2)) ELSE anchor_y[1]
    IN  [x |-> zoom_offset(x, t.x, ratio),
         y |-> zoom_offset(y, t.y, ratio),
         scale |-> zoom_scale(next_scale)]

\* on_wheel: the transform it sets for event.deltaY and the place of the pointer.
on_wheel(t, vp, deltaY, at) ==
    LET zoom_factor == IF deltaY < 0 THEN Rat(108, 100) ELSE Rat(92, 100)
    IN  update_zoom(t, vp, Times(t.scale, zoom_factor),
                    Defined(clamp(Num(at.x), Num(0), Num(vp.width))),
                    Defined(clamp(Num(at.y), Num(0), Num(vp.height))))

\* on_pointer_down: what it leaves in pointer_ref, dragged_ref and is_panning;
\* no_pan stands for target.closest("[data-no-pan]").
on_pointer_down(ref, dragged, panning, button, no_pan, at) ==
    IF button # 0 \/ no_pan
    THEN [pointer_ref |-> ref, dragged_ref |-> dragged, is_panning |-> panning]
    ELSE [pointer_ref |-> Defined(at), dragged_ref |-> FALSE, is_panning |-> TRUE]

\* The new offset with the place of the pointer for the delta.
pan_offset_Absolute(current, delta, at) == Plus(current, Num(at))

\* current.x + dx, for the delta dx of a move to the place at
pan_offset(current, delta, at) == Plus(current, Num(delta))

\* on_pointer_move: what it leaves in transform, pointer_ref and dragged_ref.
on_pointer_move(t, ref, dragged, at) ==
    IF ref = Undefined THEN [transform |-> t, pointer_ref |-> ref, dragged_ref |-> dragged]
    ELSE
        LET dx == at.x - ref[1].x
            dy == at.y - ref[1].y
        IN  [transform |-> [x |-> pan_offset(t.x, dx, at.x), y |-> pan_offset(t.y, dy, at.y),
                            scale |-> t.scale],
             pointer_ref |-> Defined(at),
             dragged_ref |-> (dragged \/ Abs(dx) > 2 \/ Abs(dy) > 2)]

\* on_canvas_click: what it leaves in dragged_ref and selected_node_id.
on_canvas_click(dragged, selected) ==
    IF dragged THEN [dragged_ref |-> FALSE, selected_node_id |-> selected]
    ELSE [dragged_ref |-> dragged, selected_node_id |-> Undefined]

\* TechGraph has been rendered with ViewNodes and ViewEdges in a container of
\* some size; the state and the refs hold their initial values and the effect
\* that calls fit_to_view has not run.
InitView ==
    /\ pc = "mount"
    /\ layout_nodes = ViewNodes
    /\ layout = build_layout(ViewNodes)
    /\ edges = ViewEdges
    /\ viewport \in Viewports
    /\ nodes = <<>>
    /\ levels = EmptyMap
    /\ rootIds = <<>>
    /\ remaining = <<>>
    /\ remainingLast = 1
    /\ passes = 0
    /\ stalled = FALSE
    /\ loopLevels = EmptyMap
    /\ graph_nodes = <<>>
    /\ max_level = NegInfinity
    /\ raw = <<>>
    /\ edges_with_paths = EdgesWithPaths(build_layout(ViewNodes), ViewEdges)
    /\ selection = [mode |-> "none"]
    /\ highlighted_edge_ids = {}
    /\ related_node_ids = {}
    /\ transform = [x |-> <<0, 1>>, y |-> <<0, 1>>, scale |-> <<1, 1>>]
    /\ is_panning = FALSE
    /\ pointer_ref = Undefined
    /\ dragged_ref = FALSE
    /\ selected_node_id = Undefined
    /\ click_due = FALSE
    /\ drag_start = Undefined
    /\ drag_far = FALSE
    /\ pan_sum = << <<0, 1>>, <<0, 1>> >>
    /\ last_pick = Undefined
    /\ zooms = 0
    /\ moves = 0

\* What no handler of the view changes: the props, the layout and the
\* variables of loadTechTree.
propVars == <<raw, nodes, levels, rootIds, remaining, remainingLast, passes, stalled,
              loopLevels, graph_nodes, edges, max_level, layoutVars>>

\* The memos after a render with a selected node id.
Rerender(selected) ==
    /\ edges_with_paths' = EdgesWithPaths(layout, edges)
    /\ \E sel \in {selection_memo(layout_nodes, edges, selected)} :
         /\ selection' = sel
         /\ highlighted_edge_ids' = highlighted_edge_ids_memo(sel)
         /\ related_node_ids' = related_node_ids_memo(sel, selected)

\* The click on a toolbar button bubbles to the canvas: on_canvas_click runs
\* after the button's own handler.  The press and the release on the button
\* are events the pointer handlers return from at once.
BubbleToCanvas ==
    /\ dragged_ref' = on_canvas_click(dragged_ref, selected_node_id).dragged_ref
    /\ selected_node_id' = on_canvas_click(dragged_ref, selected_node_id).selected_node_id
    /\ Rerender(on_canvas_click(dragged_ref, selected_node_id).selected_node_id)
    /\ click_due' = FALSE

\* useEffect: fit_to_view runs once the component is mounted.
Mount ==
    /\ pc = "mount"
    /\ pc' = "live"
    /\ transform' = fit_to_view(transform, viewport, layout)
    /\ UNCHANGED <<propVars, memoVars, viewport, is_panning, pointer_ref, dragged_ref,
                   selected_node_id, click_due, drag_start, drag_far, pan_sum,
                   last_pick, zooms, moves>>

\* The resize listener: the container has a new size and fit_to_view runs.
Resize ==
    /\ pc = "live"
    /\ \E vp \in Viewports :
         /\ viewport' = vp
         /\ transform' = fit_to_view(transform, vp, layout)
    /\ UNCHANGED <<pc, propVars, memoVars, is_panning, pointer_ref, dragged_ref,
                   selected_node_id, click_due, drag_start, drag_far, pan_sum,
                   last_pick, zooms, moves>>

\* on_wheel
Wheel ==
    /\ pc = "live"
    /\ zooms < MaxZooms
    /\ \E deltaY \in {0 - 1, 1} : \E at \in Points :
         transform' = on_wheel(transform, viewport, deltaY, at)
    /\ zooms' = zooms + 1
    /\ UNCHANGED <<pc, propVars, memoVars, viewport, is_panning, pointer_ref, dragged_ref,
                   selected_node_id, click_due, drag_start, drag_far, pan_sum,
                   last_pick, moves>>

\* A click on the Zoom in button.
ZoomInClick ==
    /\ pc = "live"
    /\ pointer_ref = Undefined
    /\ zooms < MaxZooms
    /\ transform' = update_zoom(transform, viewport, Times(transform.scale, Rat(112, 100)),
                                Undefined, Undefined)
    /\ zooms' = zooms + 1
    /\ BubbleToCanvas
    /\ UNCHANGED <<pc, propVars, viewport, is_panning, pointer_ref,
                   drag_start, drag_far, pan_sum, last_pick, moves>>

\* A click on the Zoom out button.
ZoomOutClick ==
    /\ pc = "live"
    /\ pointer_ref = Undefined
    /\ zooms < MaxZooms
    /\ transform' = update_zoom(transform, viewport, Times(transform.scale, Rat(88, 100)),
                                Undefined, Undefined)
    /\ zooms' = zooms + 1
    /\ BubbleToCanvas
    /\ UNCHANGED <<pc, propVars, viewport, is_panning, pointer_ref,
                   drag_start, drag_far, pan_sum, last_pick, moves>>

\* A click on the Reset button.
ResetClick ==
    /\ pc = "live"
    /\ pointer_ref = Undefined
    /\ transform' = fit_to_view(transform, viewport, layout)
    /\ BubbleToCanvas
    /\ UNCHANGED <<pc, propVars, viewport, is_panning, pointer_ref,
                   drag_start, drag_far, pan_sum, last_pick, zooms, moves>>

\* on_pointer_down: the primary button (0) or another one (2) goes down at a
\* place, on the background or inside an element that carries data-no-pan (the
\* toolbar, a node card).
PointerDown ==
    /\ pc = "live"
    /\ pointer_ref = Undefined
    /\ \E button \in {0, 2} : \E no_pan \in BOOLEAN : \E at \in Points :
         \E r \in {on_pointer_down(pointer_ref, dragged_ref, is_panning, button, no_pan, at)} :
           /\ pointer_ref' = r.pointer_ref
           /\ dragged_ref' = r.dragged_ref
           /\ is_panning' = r.is_panning
           /\ IF button = 0 /\ ~no_pan
              THEN /\ drag_start' = Defined(at)
                   /\ drag_far' = FALSE
                   /\ pan_sum' = <<Num(0), Num(0)>>
              ELSE UNCHANGED <<drag_start, drag_far, pan_sum>>
    /\ click_due' = FALSE
    /\ UNCHANGED <<pc, propVars, memoVars, viewport, transform, selected_node_id,
                   last_pick, zooms, moves>>

\* on_pointer_move: the pointer comes to another place.
PointerMove ==
    /\ pc = "live"
    /\ \E at \in Points :
         \E r \in {on_pointer_move(transform, pointer_ref, dragged_ref, at)} :
           /\ pointer_ref # Undefined => (moves < MaxMoves /\ Defined(at) # pointer_ref)
           /\ transform' = r.transform
           /\ pointer_ref' = r.pointer_ref
           /\ dragged_ref' = r.dragged_ref
           /\ moves' = IF pointer_ref = Undefined THEN moves ELSE moves + 1
           /\ drag_far' = IF pointer_ref = Undefined THEN drag_far
                          ELSE \/ drag_far
                               \/ Abs(at.x - drag_start[1].x) > 2
                               \/ Abs(at.y - drag_start[1].y) > 2
           /\ pan_sum' = <<Plus(pan_sum[1], Minus(r.transform.x, transform.x)),
                           Plus(pan_sum[2], Minus(r.transform.y, transform.y))>>
    /\ UNCHANGED <<pc, propVars, memoVars, viewport, is_panning, selected_node_id,
                   click_due, drag_start, last_pick, zooms>>

\* on_pointer_up, for a pointer up and for a pointer cancel.  The browser
\* sends a click to the canvas after a pointer up, none after a cancel.
PointerUp ==
    /\ pc = "live"
    /\ pointer_ref # Undefined
    /\ pointer_ref' = Undefined
    /\ is_panning' = FALSE
    /\ \E cancel \in BOOLEAN : click_due' = ~cancel
    /\ drag_start' = Undefined
    /\ pan_sum' = <<Num(0), Num(0)>>
    /\ UNCHANGED <<pc, propVars, memoVars, viewport, transform, dragged_ref,
                   selected_node_id, drag_far, last_pick, zooms, moves>>

\* on_canvas_click for the click that follows a press and a release on the
\* background.
CanvasClick ==
    /\ pc = "live"
    /\ click_due
    /\ BubbleToCanvas
    /\ last_pick' = IF drag_far THEN last_pick ELSE Undefined
    /\ UNCHANGED <<pc, propVars, viewport, transform, is_panning, pointer_ref,
                   drag_start, drag_far, pan_sum, zooms, moves>>

\* The onClick of a node card: stopPropagation, set_selected_node_id(node.id).
NodeClick ==
    /\ pc = "live"
    /\ pointer_ref = Undefined
    /\ \E i \in 1..Len(layout_nodes) :
         /\ layout_nodes[i].id \in DOMAIN layout.positions
         /\ selected_node_id' = Defined(layout_nodes[i].id)
         /\ last_pick' = Defined(layout_nodes[i].id)
         /\ Rerender(Defined(layout_nodes[i].id))
    /\ click_due' = FALSE
    /\ UNCHANGED <<pc, propVars, viewport, transform, is_panning, pointer_ref, dragged_ref,
                   drag_start, drag_far, pan_sum, zooms, moves>>

\* The onClick of a link of the details panel: a node of incoming_nodes or
\* outgoing_nodes of the selection.  The panel lies outside the canvas.
LinkClick ==
    /\ pc = "live"
    /\ pointer_ref = Undefined
    /\ selection.mode = "node"
    /\ nodes_by_id_get(layout_nodes, selected_node_id[1]) # Undefined
    /\ \E node \in Range(selection.incoming_nodes) \cup Range(selection.outgoing_nodes) :
         /\ selected_node_id' = Defined(node.id)
         /\ last_pick' = Defined(node.id)
         /\ Rerender(Defined(node.id))
    /\ click_due' = FALSE
    /\ UNCHANGED <<pc, propVars, viewport, transform, is_panning, pointer_ref, dragged_ref,
                   drag_start, drag_far, pan_sum, zooms, moves>>

NextView ==
    \/ Mount \/ Resize \/ Wheel \/ ZoomInClick \/ ZoomOutClick \/ ResetClick
    \/ PointerDown \/ PointerMove \/ PointerUp \/ CanvasClick \/ NodeClick \/ LinkClick

SpecView == InitView /\ [][NextView]_vars

-----------------------------------------------------------------------------
(* Properties of loadTechTree.                                             *)

IdsOf == {nodes[i].id : i \in 1..Len(nodes)}

\* The prerequisite list a record states: the merged field when the record
\* carries one, the direct field otherwise.
StatedPrereqs(id) ==
    LET node == NodeOf(nodes, id)
    IN  IF node.required_technologies_merged = Undefined
        THEN node.required_technologies
        ELSE node.required_technologies_merged[1]

\* The sanitized prerequisite relation: self-references and unknown ids removed.
SanitizedPrereqs(id) == {d \in Range(StatedPrereqs(id)) : d # id /\ d \in IdsOf}

\* The sanitized relation has no cycle: the ids can be ranked so that every
\* prerequisite ranks below its dependent.
Acyclic ==
    \E rank \in [IdsOf -> 1..Len(nodes)] :
        \A id \in IdsOf : \A d \in SanitizedPrereqs(id) : rank[d] < rank[id]

\* The level of an id in the GraphNode array returned.
LevelOf(id) == graph_nodes[CHOOSE i \in 1..Len(graph_nodes) : graph_nodes[i].id = id].level

\* C1: on a dataset whose sanitized prerequisite relation has no cycle, every
\* node returned has level 0 when its sanitized prerequisite list is empty and
\* 1 + the maximum level of its sanitized prerequisites otherwise.
C1_AcyclicLevels ==
    (pc = "done" /\ Acyclic) =>
        \A id \in IdsOf :
            /\ Has(levels, id)
            /\ levels[id] = LevelOf(id)
            /\ LevelOf(id) = IF SanitizedPrereqs(id) = {} THEN 0
                             ELSE 1 + Max({LevelOf(d) : d \in SanitizedPrereqs(id)})

\* C1 witness: an acyclic dataset a:[], b:[a], c:[a,b] has been levelled 0, 1, 2.
C1_Witness ==
    /\ pc = "done"
    /\ Acyclic
    /\ Len(nodes) = 3
    /\ SanitizedPrereqs("a") = {}
    /\ SanitizedPrereqs("b") = {"a"}
    /\ SanitizedPrereqs("c") = {"a", "b"}
    /\ LevelOf("a") = 0 /\ LevelOf("b") = 1 /\ LevelOf("c") = 2

\* The number of passes the claim allows on an acyclic dataset: the maximum
\* level + 1, and none when there is no node.
AcyclicPassBound == IF Len(nodes) = 0 THEN 0 ELSE Max({levels[id] : id \in IdsOf}) + 1

\* C2: the level computation terminates with a non-negative integer level for
\* every node id, also on a dataset with a cycle: the while loop makes at most
\* N + 1 passes over N nodes, makes no pass after one that resolved no node,
\* and on an acyclic dataset makes at most (maximum level + 1) passes; when
\* the loops have ended every node id has a level, a natural number.
C2_Terminates ==
    /\ passes <= Len(nodes) + 1
    /\ (pc = "loop" /\ stalled) => ~LoopCondition
    /\ pc # "loop" =>
        /\ DOMAIN levels = IdsOf
        /\ \A id \in IdsOf : levels[id] \in Nat
        /\ Acyclic => passes <= AcyclicPassBound
    /\ pc = "done" =>
        /\ Len(graph_nodes) = Len(nodes)
        /\ \A i \in 1..Len(graph_nodes) : graph_nodes[i].level \in Nat

\* C2 witness: a pure cycle (a requires b, b requires a) has been through a
\* pass that resolved nothing, and loadTechTree has returned.
C2_Witness ==
    /\ pc = "done"
    /\ stalled
    /\ Len(nodes) = 2
    /\ SanitizedPrereqs("a") = {"b"}
    /\ SanitizedPrereqs("b") = {"a"}
    /\ passes = 1

\* The ids a record lists in either of its prerequisite fields.
ListedIds(node) ==
    Range(node.required_technologies) \cup
    (IF node.required_technologies_merged = Undefined THEN {}
     ELSE Range(node.required_technologies_merged[1]))

\* C3: a node is flagged is_infinite exactly when its record lists its own id
\* in a prerequisite field, and no edge returned has from = to.
C3_SelfReference ==
    pc = "done" =>
        /\ \A i \in 1..Len(nodes) :
            /\ graph_nodes[i].id = nodes[i].id
            /\ graph_nodes[i].is_infinite <=> nodes[i].id \in ListedIds(nodes[i])
        /\ \A k \in 1..Len(edges) : edges[k].from # edges[k].to

\* C3 witness: the single node a with prerequisites [a] is returned at level
\* 0, as a root, flagged is_infinite, with no edge.
C3_Witness ==
    /\ pc = "done"
    /\ Len(nodes) = 1
    /\ StatedPrereqs("a") = <<"a">>
    /\ graph_nodes[1].is_infinite
    /\ graph_nodes[1].level = 0
    /\ rootIds = <<"a">>
    /\ edges = <<>>

\* C4: the root set returned is exactly the set of nodes whose sanitized
\* prerequisite list is empty, and every root has level 0.
C4_Roots ==
    pc = "done" =>
        /\ Range(rootIds) = {id \in IdsOf : SanitizedPrereqs(id) = {}}
        /\ Len(rootIds) = Cardinality(Range(rootIds))
        /\ \A id \in Range(rootIds) : LevelOf(id) = 0

\* C4 witness: a node whose only prerequisite is an id absent from the
\* dataset is a root at level 0, and a node that got level 0 from the
\* fallback loop is not a root.
C4_Witness ==
    /\ pc = "done"
    /\ \E id \in IdsOf : Range(StatedPrereqs(id)) = {MissingId} /\ id \in Range(rootIds)
    /\ \E id \in IdsOf : id \notin DOMAIN loopLevels /\ LevelOf(id) = 0
                         /\ id \notin Range(rootIds)

\* C5: the edge list holds exactly one edge per (prerequisite, dependent) pair
\* of the sanitized relation, with id "<prereq>::<node>", no two edges share
\* an id, and a node's prerequisites field holds no duplicates.
C5_OneEdgePerPair ==
    pc = "done" =>
        /\ {<<edges[k].from, edges[k].to>> : k \in 1..Len(edges)}
             = {pr \in IdsOf \X IdsOf : pr[1] \in SanitizedPrereqs(pr[2])}
        /\ \A k \in 1..Len(edges) : edges[k].id = EdgeId(edges[k].from, edges[k].to)
        /\ \A k, l \in 1..Len(edges) : edges[k].id = edges[l].id => k = l
        /\ \A i \in 1..Len(graph_nodes) :
             LET prereqs == graph_nodes[i].prerequisites
             IN  \A k, l \in 1..Len(prereqs) : prereqs[k] = prereqs[l] => k = l

\* The levels the while loop resolved among the sanitized prerequisites of an id.
LoopResolved(id) == {loopLevels[d] : d \in SanitizedPrereqs(id) \cap DOMAIN loopLevels}

\* C6: a node still unresolved when the while loop stops gets level
\* 1 + the maximum level of the prerequisites the loop resolved, or 0 if the
\* loop resolved none of them.
C6_FallbackLevel ==
    pc # "loop" =>
        \A id \in Range(remaining) :
            levels[id] = IF LoopResolved(id) = {} THEN 0 ELSE 1 + Max(LoopResolved(id))

-----------------------------------------------------------------------------
(* Properties of build_layout.                                             *)

\* The indices of the nodes of a level in the array handed to build_layout.
RowOf(level) == {i \in 1..Len(layout_nodes) : layout_nodes[i].level = level}

PositionOf(i) == layout.positions[layout_nodes[i].id]

SizeOf(i) == layout.sizes[layout_nodes[i].id]

\* a comes before b in the ascending order of the ids.
IdBefore(a, b) ==
    \E i, j \in 1..Len(LayoutIds) : i < j /\ LayoutIds[i] = a /\ LayoutIds[j] = b

\* C7: the nodes of one level stand left to right in ascending order of
\* title, and nodes of the same level with equal titles in ascending order of id.
C7_RowOrder ==
    pc = "laid" =>
        \A level \in 0..MaxLevel : \A i, j \in RowOf(level) :
            (\/ layout_nodes[i].title < layout_nodes[j].title
             \/ /\ layout_nodes[i].title = layout_nodes[j].title
                /\ IdBefore(layout_nodes[i].id, layout_nodes[j].id))
            => PositionOf(i).x < PositionOf(j).x

\* C8: build_layout returns the same positions, sizes, width and height for
\* the same set of nodes in whatever order the array holds them.
C8_OrderIndependent ==
    pc = "laid" =>
        \A perm \in Permutations(1..Len(layout_nodes)) :
            build_layout([i \in 1..Len(layout_nodes) |-> layout_nodes[perm[i]]]) = layout

\* The height of a row: the maximum height of the nodes of the level, 0
\* for a level without nodes.
RowHeight(level) == Max({0} \cup {SizeOf(i).height : i \in RowOf(level)})

\* The highest level of a node; levels run from 0 to it, so there is one
\* level, an empty row, when there is no node.
TopLevel == Max({0} \cup {layout_nodes[i].level : i \in 1..Len(layout_nodes)})

RECURSIVE RowsAbove(_)
\* The sum of (height of row j + node_gap_y) over the levels j < level.
RowsAbove(level) ==
    IF level = 0 THEN 0 ELSE RowsAbove(level - 1) + RowHeight(level - 1) + node_gap_y

\* C9: a node of level L has y = canvas_padding + the sum over the levels
\* j < L of (height of row j + node_gap_y); the canvas height is
\* 2*canvas_padding + the sum of the row heights + (number of levels - 1) *
\* node_gap_y; every node ends at or above height - canvas_padding, and a node
\* of a lower level ends at or above the top of a node of a higher level.
C9_Rows ==
    pc = "laid" =>
        /\ \A i \in 1..Len(layout_nodes) :
            /\ SizeOf(i).height = get_node_height(layout_nodes[i])
            /\ PositionOf(i).y = canvas_padding + RowsAbove(layout_nodes[i].level)
            /\ PositionOf(i).y + SizeOf(i).height <= layout.height - canvas_padding
        /\ layout.height = 2 * canvas_padding + RowsAbove(TopLevel + 1) - node_gap_y
        /\ \A i, j \in 1..Len(layout_nodes) :
            layout_nodes[i].level < layout_nodes[j].level
            => PositionOf(i).y + SizeOf(i).height <= PositionOf(j).y

\* C9 witness: a row holds two nodes of different heights and a node of a
\* higher level lies below the taller one.
C9_Witness ==
    /\ pc = "laid"
    /\ \E i, j, k \in 1..Len(layout_nodes) :
        /\ layout_nodes[i].level = layout_nodes[j].level
        /\ SizeOf(i).height < SizeOf(j).height
        /\ layout_nodes[k].level = layout_nodes[i].level + 1
        /\ PositionOf(k).y = PositionOf(j).y + SizeOf(j).height + node_gap_y

\* The content width of a row of count nodes.
RowContentWidth(count) ==
    IF count = 0 THEN 0 ELSE count * node_width + (count - 1) * node_gap_x

\* The content width of the widest row.
WidestContentWidth ==
    Max({0} \cup {RowContentWidth(Cardinality(RowOf(level))) : level \in 0..TopLevel})

\* What C10 states of the rows for a canvas of a given width: the nodes of a
\* row stand at x = canvas_padding + (widest content width - content width of
\* the row)/2 + i*(node_width + node_gap_x), i = 0, 1, ..., one node each; the
\* left margin of a row equals its right margin; nodes of a row do not
\* overlap; every node lies between canvas_padding and width - canvas_padding.
RowsCentered ==
    \A level \in 0..TopLevel :
        LET count == Cardinality(RowOf(level))
            slack == WidestContentWidth - RowContentWidth(count)
            xs == {PositionOf(i).x : i \in RowOf(level)}
        IN  count > 0 =>
            /\ slack % 2 = 0
            /\ xs = {canvas_padding + slack \div 2 + k * (node_width + node_gap_x) :
                     k \in 0..(count - 1)}
            /\ Cardinality(xs) = count
            /\ \A i, j \in RowOf(level) :
                i # j => \/ PositionOf(i).x + node_width <= PositionOf(j).x
                         \/ PositionOf(j).x + node_width <= PositionOf(i).x
            /\ \A i \in RowOf(level) :
                /\ SizeOf(i).width = node_width
                /\ canvas_padding <= PositionOf(i).x
                /\ PositionOf(i).x + node_width <= layout.width - canvas_padding
            /\ \A lo, hi \in xs :
                (\A x \in xs : lo <= x /\ x <= hi)
                => lo = layout.width - (hi + node_width)

\* C10 as stated: the canvas width is the content width of the widest row +
\* 2*canvas_padding, and the rows are centred in it.
C10_Original ==
    pc = "laid" =>
        /\ layout.width = WidestContentWidth + 2 * canvas_padding
        /\ RowsCentered

\* C10 amended: for an array that holds a node the canvas width is the
\* content width of the widest row + 2*canvas_padding, for an empty array it
\* is node_width + 2*canvas_padding; the rows are centred in it.
C10_Columns ==
    pc = "laid" =>
        /\ layout.width = IF Len(layout_nodes) = 0 THEN node_width + 2 * canvas_padding
                          ELSE WidestContentWidth + 2 * canvas_padding
        /\ RowsCentered

\* C10 witness: a row of one node is centred under a row of two.
C10_Witness ==
    /\ pc = "laid"
    /\ \E i, j, k \in 1..Len(layout_nodes) :
        /\ i # j
        /\ layout_nodes[i].level = layout_nodes[j].level
        /\ layout_nodes[k].level # layout_nodes[i].level
        /\ PositionOf(k).x = canvas_padding + (node_width + node_gap_x) \div 2
        /\ layout.width = 2 * node_width + node_gap_x + 2 * canvas_padding

-----------------------------------------------------------------------------
(* Properties of edges_with_paths.                                         *)

\* The bottom edge's midpoint of the node of an id, and the top edge's.
BottomMid(id) ==
    <<Plus(Num(layout.positions[id].x), Over(Num(layout.sizes[id].width), Num(2))),
      Num(layout.positions[id].y + layout.sizes[id].height)>>

TopMid(id) ==
    <<Plus(Num(layout.positions[id].x), Over(Num(layout.sizes[id].width), Num(2))),
      Num(layout.positions[id].y)>>

\* 55% of the vertical distance between the anchors of a drawn edge.
Offset55(e) == Times(Minus(TopMid(e.to)[2], BottomMid(e.from)[2]), Rat(55, 100))

\* C11: the path of every drawn edge starts at the horizontal midpoint of the
\* source node's bottom edge and ends at the horizontal midpoint of the target
\* node's top edge; the first control point is on the start's x at start_y +
\* 0.55*(end_y - start_y), the second on the end's x at end_y - 0.55*(end_y -
\* start_y).
C11_ControlPoints ==
    pc = "drawn" =>
        \A i \in 1..Len(edges_with_paths) :
            LET e == edges_with_paths[i]
                start == BottomMid(e.from)
                end == TopMid(e.to)
            IN  /\ e.path.M = start
                /\ e.path.C[3] = end
                /\ e.path.C[1] = <<start[1], Plus(start[2], Offset55(e))>>
                /\ e.path.C[2] = <<end[1], Minus(end[2], Offset55(e))>>

\* The indices of the input edges with both ends in the position map and
\* from # to.
Drawable ==
    {i \in 1..Len(edges) :
        /\ edges[i].from \in DOMAIN layout.positions
        /\ edges[i].to \in DOMAIN layout.positions
        /\ edges[i].from # edges[i].to}

\* The subsequence of the input edges at the indices of a set.
RECURSIVE Pick(_, _, _)
Pick(es, keep, i) ==
    IF i > Len(es) THEN <<>>
    ELSE IF i \in keep THEN <<es[i]>> \o Pick(es, keep, i + 1)
    ELSE Pick(es, keep, i + 1)

\* C12: the drawn edges are exactly the input edges whose from and to both
\* have an entry in the position map and whose from differs from to, in input
\* order; the memo returns an array (it does not raise) whatever edges it is
\* handed.
C12_DrawnEdges ==
    pc = "drawn" =>
        /\ [i \in 1..Len(edges_with_paths) |->
               [id |-> edges_with_paths[i].id, from |-> edges_with_paths[i].from,
                to |-> edges_with_paths[i].to]]
           = Pick(edges, Drawable, 1)
        /\ Len(edges_with_paths) = Cardinality(Drawable)

\* C12 witness: of two edges handed in, one from a placed node to itself and
\* one between two placed nodes, the second alone is drawn.
C12_Witness ==
    /\ pc = "drawn"
    /\ Len(edges) = 2
    /\ Len(edges_with_paths) = 1
    /\ \E i \in 1..2 : edges[i].from = edges[i].to /\ edges[i].from \in DOMAIN layout.positions
    /\ edges_with_paths[1].from # edges_with_paths[1].to

-----------------------------------------------------------------------------
(* Properties of the view transform.                                       *)

\* The scales update_zoom is asked for in a state: the scale times a factor
\* of on_wheel or of a toolbar button, a scale below min_zoom and a scale
\* above max_zoom.
Requests ==
    {Times(transform.scale, f) :
        f \in {Rat(108, 100), Rat(92, 100), Rat(112, 100), Rat(88, 100)}}
    \cup {Times(min_zoom, Rat(88, 100)), Times(max_zoom, Rat(112, 100))}

\* The anchors of update_zoom: none, as for the toolbar buttons, or a place
\* of the pointer, as for on_wheel.
Anchors == {<<Undefined, Undefined>>, <<Defined(Num(4)), Defined(Num(1))>>}

\* C13: in every state reached from the transform {x: 0, y: 0, scale: 1} by
\* wheel zooms, clicks on Zoom in, Zoom out and Reset, resizes and pointer
\* events, min_zoom <= transform.scale <= max_zoom; the same holds of the scale
\* update_zoom sets from a scale at either limit.
C13_ScaleWithinLimits ==
    /\ Leq(min_zoom, transform.scale)
    /\ Leq(transform.scale, max_zoom)
    /\ pc = "live" =>
        \A next_scale \in Requests :
            \A t \in {update_zoom(transform, viewport, next_scale, Undefined, Undefined)} :
                Leq(min_zoom, t.scale) /\ Leq(t.scale, max_zoom)

\* C13 witness: a zoom out from the scale fit_to_view left at min_zoom has
\* been asked for and the scale is min_zoom.
C13_Witness ==
    /\ pc = "live"
    /\ zooms > 0
    /\ viewport.width = 115
    /\ transform.scale = min_zoom

\* The content-space coordinate under a place of the viewport.
ContentUnder(anchor, offset, scale) == Over(Minus(anchor, offset), scale)

\* C14: update_zoom(next_scale, anchor) sets the scale s' = clamp(next_scale,
\* min_zoom, max_zoom) and the offset anchor - (anchor - old offset) * (s' /
\* old scale) on both axes, so that (anchor - offset) / scale is the same
\* before and after, clamped or not; an anchor not passed is the centre of the
\* viewport; a request that clamps to the current scale leaves the transform
\* as it is.
C14_AnchorFixed ==
    pc = "live" =>
        \A next_scale \in Requests : \A anchor \in Anchors :
            \A t \in {update_zoom(transform, viewport, next_scale, anchor[1], anchor[2])} :
            \A ax \in {IF anchor[1] = Undefined THEN Rat(viewport.width, 2) ELSE anchor[1][1]} :
            \A ay \in {IF anchor[2] = Undefined THEN Rat(viewport.height, 2) ELSE anchor[2][1]} :
            \A s \in {IF Less(next_scale, min_zoom) THEN min_zoom
                      ELSE IF Less(max_zoom, next_scale) THEN max_zoom ELSE next_scale} :
                /\ t.scale = s
                /\ t.x = Minus(ax, Times(Minus(ax, transform.x), Over(s, transform.scale)))
                /\ t.y = Minus(ay, Times(Minus(ay, transform.y), Over(s, transform.scale)))
                /\ ContentUnder(ax, t.x, t.scale) = ContentUnder(ax, transform.x, transform.scale)
                /\ ContentUnder(ay, t.y, t.scale) = ContentUnder(ay, transform.y, transform.scale)
                /\ s = transform.scale => t = transform

\* C14 witness: a wheel zoom in at the place (4, 1) from the transform
\* fit_to_view set in the viewport of the size of the canvas: the scale is
\* 1.08 and the offset is (4, 1) - (4, 1) * 1.08.
C14_Witness ==
    /\ pc = "live"
    /\ zooms = 1
    /\ moves = 0
    /\ viewport.width = 460
    /\ transform = [x |-> Rat(0 - 32, 100), y |-> Rat(0 - 8, 100), scale |-> Rat(108, 100)]

\* The sizes fit_to_view is tried with in every state: the sizes of Viewports,
\* two sizes with a side of 0, one of half the canvas and one of twice it.
FitViewports ==
    Viewports \cup {[width |-> 0, height |-> 606], [width |-> 460, height |-> 0],
                    [width |-> 230, height |-> 303], [width |-> 920, height |-> 1212]}

\* min(W / canvas width, H / canvas height)
FitRatio(vp) ==
    MathMin(Rat(vp.width, layout.width), Rat(vp.height, layout.height))

\* clamp(min(W / canvas width, H / canvas height, 1), min_zoom, max_zoom)
FitScale(vp) ==
    LET r == MathMin(FitRatio(vp), Num(1))
    IN  IF Less(r, min_zoom) THEN min_zoom ELSE IF Less(max_zoom, r) THEN max_zoom ELSE r

\* What C15 states of fit_to_view in a viewport but for the canvas lying
\* inside it: the scale and the offset, the equal margins on both sides, the
\* result being the same from every previous transform and when invoked again;
\* a viewport with a side of 0 leaves the transform as it is.
FitsCentred(vp) ==
    \A t \in {fit_to_view(transform, vp, layout)} :
        IF vp.width = 0 \/ vp.height = 0 THEN t = transform
        ELSE
            /\ t.scale = FitScale(vp)
            /\ t.x = Over(Minus(Num(vp.width), Times(Num(layout.width), t.scale)), Num(2))
            /\ t.y = Over(Minus(Num(vp.height), Times(Num(layout.height), t.scale)), Num(2))
            /\ t.x = Minus(Num(vp.width), Plus(t.x, Times(Num(layout.width), t.scale)))
            /\ t.y = Minus(Num(vp.height), Plus(t.y, Times(Num(layout.height), t.scale)))
            /\ t = fit_to_view([x |-> Num(0), y |-> Num(0), scale |-> Num(1)], vp, layout)
            /\ fit_to_view(t, vp, layout) = t

\* The scaled canvas at the offset and scale of t lies inside the viewport.
CanvasInside(t, vp) ==
    /\ Leq(Num(0), t.x)
    /\ Leq(Plus(t.x, Times(Num(layout.width), t.scale)), Num(vp.width))
    /\ Leq(Num(0), t.y)
    /\ Leq(Plus(t.y, Times(Num(layout.height), t.scale)), Num(vp.height))

\* C15 as stated: fit_to_view in a viewport of non-zero width W and height H
\* sets the scale clamp(min(W / canvas width, H / canvas height, 1), min_zoom,
\* max_zoom) and the offset ((W - canvas width * scale) / 2, (H - canvas height
\* * scale) / 2), the scaled canvas is centred and lies fully inside the
\* viewport, the result does not depend on the previous transform and is the
\* same when invoked twice; in a zero-sized viewport the transform is unchanged.
C15_Original ==
    pc = "live" =>
        \A vp \in FitViewports :
            /\ FitsCentred(vp)
            /\ (vp.width # 0 /\ vp.height # 0) =>
                   CanvasInside(fit_to_view(transform, vp, layout), vp)

\* C15 amended: as stated, but the scaled canvas lies fully inside the
\* viewport only when min(W / canvas width, H / canvas height) >= min_zoom;
\* in a smaller viewport the scale is min_zoom and the canvas, still centred,
\* is larger than the viewport on at least one axis.
C15_FitToView ==
    pc = "live" =>
        \A vp \in FitViewports :
            /\ FitsCentred(vp)
            /\ (vp.width # 0 /\ vp.height # 0) =>
                   \A t \in {fit_to_view(transform, vp, layout)} :
                       IF Leq(min_zoom, FitRatio(vp)) THEN CanvasInside(t, vp)
                       ELSE t.scale = min_zoom /\ ~CanvasInside(t, vp)

\* C15 witness: after a zoom and two moves of a pan, fit_to_view has set the
\* scale 1 and the offset (0, 0) in the viewport of the size of the canvas.
C15_Witness ==
    /\ pc = "live"
    /\ zooms = 1
    /\ moves = 2
    /\ viewport = [width |-> 460, height |-> 606]
    /\ transform = [x |-> Num(0), y |-> Num(0), scale |-> Num(1)]

\* C16: a pointer move changes the transform only while a pan is active, that
\* is from a pointer down of the primary button outside every [data-no-pan]
\* element to the next pointer up or cancel; a move of a pan adds the delta of
\* the pointer since the previous pointer event to the offset and leaves the
\* scale, so that the offset has changed by the displacement of the pointer
\* since the press; a pointer down of another button, on the toolbar or on a
\* node card starts no pan.
C16_Pan ==
    pc = "live" =>
        /\ (pointer_ref # Undefined) = (drag_start # Undefined)
        /\ (pointer_ref # Undefined) = is_panning
        /\ \A at \in Points :
            \A r \in {on_pointer_move(transform, pointer_ref, dragged_ref, at)} :
                IF drag_start = Undefined THEN r.transform = transform
                ELSE /\ r.transform.scale = transform.scale
                     /\ r.transform.x = Plus(transform.x, Num(at.x - pointer_ref[1].x))
                     /\ r.transform.y = Plus(transform.y, Num(at.y - pointer_ref[1].y))
        /\ drag_start # Undefined =>
            pan_sum = <<Num(pointer_ref[1].x - drag_start[1].x),
                        Num(pointer_ref[1].y - drag_start[1].y)>>
        /\ \A button \in {0, 2} : \A no_pan \in BOOLEAN : \A at \in Points :
            \A r \in {on_pointer_down(pointer_ref, dragged_ref, is_panning, button, no_pan, at)} :
                IF button = 0 /\ ~no_pan
                THEN r.pointer_ref = Defined(at) /\ r.is_panning
                ELSE /\ r.pointer_ref = pointer_ref
                     /\ r.is_panning = is_panning
                     /\ r.dragged_ref = dragged_ref

\* C16 witness: a pan from (0, 0) over (2, 0) to (4, 1) is active and has
\* moved the offset by (4, 1).
C16_Witness ==
    /\ pc = "live"
    /\ is_panning
    /\ moves = 2
    /\ drag_start = Defined([x |-> 0, y |-> 0])
    /\ pointer_ref = Defined([x |-> 4, y |-> 1])
    /\ pan_sum = <<Num(4), Num(1)>>

\* C17: when the click that follows a press and a release on the background
\* is due, it leaves the selection if the pointer was more than 2 px from the
\* place of the press at some move of the drag, however small the moves, and
\* clears the selection if it never was.
C17_DragThreshold ==
    (pc = "live" /\ click_due) =>
        \A r \in {on_canvas_click(dragged_ref, selected_node_id)} :
            IF drag_far THEN r.selected_node_id = selected_node_id
            ELSE r.selected_node_id = Undefined

-----------------------------------------------------------------------------
(* Properties of the selection.                                            *)

\* The indices of the drawn edges that are highlighted, and that are dimmed.
HighlightedEdges ==
    {i \in 1..Len(edges_with_paths) :
        edge_is_highlighted(highlighted_edge_ids, edges_with_paths[i])}

DimmedEdges ==
    {i \in 1..Len(edges_with_paths) :
        edge_is_dimmed(highlighted_edge_ids, edges_with_paths[i])}

\* The indices of the drawn edges that end or start at a node.
EdgesAt(id) ==
    {i \in 1..Len(edges_with_paths) :
        edges_with_paths[i].to = id \/ edges_with_paths[i].from = id}

\* k + m: the number of the edges handed in that end at a node plus the
\* number of those that start at it.
IncomingPlusOutgoing(id) ==
    Cardinality({i \in 1..Len(edges) : edges[i].to = id})
    + Cardinality({i \in 1..Len(edges) : edges[i].from = id})

\* C18 as stated: with a node selected that has k incoming and m outgoing
\* edges, the highlighted edges are those k + m edges and the dimmed edges are
\* all the other drawn edges, for every k and m, k = m = 0 included; with no
\* node selected no edge is highlighted or dimmed.
C18_Original ==
    pc = "rendered" =>
        IF selected_node_id = Undefined
        THEN HighlightedEdges = {} /\ DimmedEdges = {}
        ELSE /\ HighlightedEdges = EdgesAt(selected_node_id[1])
             /\ Cardinality(HighlightedEdges) = IncomingPlusOutgoing(selected_node_id[1])
             /\ DimmedEdges = (1..Len(edges_with_paths)) \ HighlightedEdges

\* C18 amended: as stated when k + m > 0; when the selected node has no edge
\* (k = m = 0) no edge is highlighted and no edge is dimmed.
C18_Highlight ==
    pc = "rendered" =>
        IF selected_node_id = Undefined
        THEN HighlightedEdges = {} /\ DimmedEdges = {}
        ELSE /\ HighlightedEdges = EdgesAt(selected_node_id[1])
             /\ Cardinality(HighlightedEdges) = IncomingPlusOutgoing(selected_node_id[1])
             /\ highlighted_edge_ids
                = {edges_with_paths[i].id : i \in EdgesAt(selected_node_id[1])}
             /\ DimmedEdges = IF HighlightedEdges = {} THEN {}
                              ELSE (1..Len(edges_with_paths)) \ HighlightedEdges

\* C18 witness: a is selected, the edge from a to b is highlighted and the
\* edge from b to c is dimmed.
C18_Witness ==
    /\ pc = "rendered"
    /\ selected_node_id = Defined("a")
    /\ Len(edges_with_paths) = 2
    /\ \E i, j \in 1..2 :
        /\ edges_with_paths[i].id = EdgeId("a", "b")
        /\ edges_with_paths[j].id = EdgeId("b", "c")
        /\ HighlightedEdges = {i}
        /\ DimmedEdges = {j}

\* The ids of the nodes that are related, and that are dimmed.
RelatedNodes ==
    {layout_nodes[i].id : i \in {j \in 1..Len(layout_nodes) :
                                    node_is_related(related_node_ids, layout_nodes[j])}}

DimmedNodes ==
    {layout_nodes[i].id : i \in {j \in 1..Len(layout_nodes) :
                                    node_is_dimmed(related_node_ids, layout_nodes[j])}}

\* The selected node, the sources of its incoming and the targets of its
\* outgoing edges.
Neighbourhood(id) ==
    {id} \cup {edges[i].from : i \in {j \in 1..Len(edges) : edges[j].to = id}}
         \cup {edges[i].to : i \in {j \in 1..Len(edges) : edges[j].from = id}}

\* C19: with a node selected the related node set is the selected node, the
\* sources of its incoming edges and the targets of its outgoing edges, every
\* other node is dimmed and no related node is; with no node selected the
\* related set is empty and no node is dimmed.
C19_Related ==
    pc = "rendered" =>
        IF selected_node_id = Undefined
        THEN related_node_ids = {} /\ RelatedNodes = {} /\ DimmedNodes = {}
        ELSE /\ related_node_ids = Neighbourhood(selected_node_id[1])
             /\ RelatedNodes = Neighbourhood(selected_node_id[1])
             /\ DimmedNodes = {layout_nodes[i].id : i \in 1..Len(layout_nodes)}
                            \ Neighbourhood(selected_node_id[1])

\* C19 witness: b is selected with an edge from a to b and none at c: a and b
\* are related and c is dimmed.
C19_Witness ==
    /\ pc = "rendered"
    /\ selected_node_id = Defined("b")
    /\ edges = <<GraphEdge("a", "b")>>
    /\ RelatedNodes = {"a", "b"}
    /\ DimmedNodes = {"c"}

\* C20: after any interactions the selection is the node of the last click
\* on a node card or on a link of the details panel, or no node if a click on
\* the background of the canvas without a drag came after it; the mode is
\* "none" exactly when no node id is selected, and then the highlighted and
\* the related sets are empty.
C20_SingleSelection ==
    /\ selected_node_id = last_pick
    /\ (selection.mode = "none") = (selected_node_id = Undefined)
    /\ selection.mode = "none" => (highlighted_edge_ids = {} /\ related_node_ids = {})

-----------------------------------------------------------------------------
(* Properties of loadTechTree reading the file (C21).                      *)

\* C21: when the file holds empty lines or lines that are no JSON,
\* loadTechTree does not fail: it skips those lines, the records it works on
\* are the records of the well-formed lines in file order, and the graph it
\* returns has one node for each of them.
C21_SkipsBadLines ==
    LET WellFormed(line) == JSON_parse(line) # Undefined
        kept == SelectSeq(split(raw), WellFormed)
        records == [i \in 1..Len(kept) |-> JSON_parse(kept[i])[1]]
    IN  /\ pc # "rejected"
        /\ pc \in {"loop", "build", "done"} => nodes = records
        /\ pc = "done" => [i \in 1..Len(graph_nodes) |-> graph_nodes[i].id]
                            = [i \in 1..Len(records) |-> records[i].id]

-----------------------------------------------------------------------------
(* Properties of the view transform and the selection together (C22).      *)

\* C22: a click on the Zoom in, Zoom out or Reset button, a wheel zoom, the
\* pointer events of a pan and a resize leave the selected node as it is, and
\* a click that selects or deselects a node leaves the transform as it is.
C22_Independent ==
    [][/\ (ZoomInClick \/ ZoomOutClick \/ ResetClick \/ Wheel \/ Resize
               \/ PointerDown \/ PointerMove \/ PointerUp)
           => selected_node_id' = selected_node_id
       /\ (NodeClick \/ LinkClick \/ CanvasClick) => transform' = transform]_vars

=============================================================================
